---------------------------- MODULE Spec2Model ----------------------------
(***************************************************************************)
(* A model of the dVRK joint-offset calibration tool:                      *)
(*   calibrate.py   parse_analyze / parse_view / parse_record              *)
(*   marker.py      Marker (secondary tracker, asynchronous callback)      *)
(*   test_points.py the two-phase offset sweep of __main__                 *)
(* The contact detector and the grid loop live in calibrate_plane.py,      *)
(* which is not among the source files; they are modelled from the         *)
(* specification's section 4.2.                                            *)
(*                                                                         *)
(* Each program is one specification over the shared variables:            *)
(*   SpecAnalyze  calibrate.py analyze / view on one data folder           *)
(*   SpecMarker   Marker.callback racing Marker.get_current_position       *)
(*   SpecRecord   calibrate.py record (contact detection per target)      *)
(*   SpecSweep    test_points.py __main__                                  *)
(***************************************************************************)
EXTENDS Integers, Sequences, FiniteSets, TLC

VARIABLES
    \* ---- calibrate.py analyze / view
    offset_v_error,  \* the OffsetCurve: rows [offset, error]
    argsWrite,       \* args.write: "none" | "missing" | "exists"
    file,            \* the configuration document on disk
    precision,       \* significant digits str() keeps for a float
    runs,            \* commands run so far
    pre,             \* the document before the last command
    last,            \* what the last command did
    searches,        \* the minimum found by every search run so far
    curve0,          \* the OffsetCurve before the first command
    \* ---- marker.py
    bad_callback,    \* Marker.bad_callback
    coord,           \* Marker._coord
    n_bad_callbacks, \* Marker.n_bad_callbacks
    cbPc,            \* callback thread: "idle" | "store" (between lines 22 and 23)
    cbPoint,         \* the point the callback is about to store
    rdPc,            \* reading thread: "idle" | "bad" | "good" (after line 29)
    rdAmbiguous,     \* whether the latest update was ambiguous at line 29
    rdWindow,        \* the readings that were the latest while the read ran
    halted,          \* the run was stopped by a read
    latest,          \* the points of the most recent update, NoUpdate before any
    nUpdates,        \* updates received
    nChecks,         \* times a read tested bad_callback
    nReturns,        \* reads that returned
    nNone,           \* reads that returned no point
    lastRead,        \* the last read that returned
    \* ---- calibrate.py record: contact detection at each target
    recMode,         \* "single" (--single-palpation) | "grid"
    cdState,         \* the Contact Detector's state
    coarseSteps,     \* coarse steps taken at this target
    fineSteps,       \* fine steps taken at this target
    metCoarse,       \* times the force threshold was met in COARSE_DESCEND
    metFine,         \* times the force threshold was met in FINE_DESCEND
    visited,         \* the detector states passed through at this target
    target,          \* the grid target being palpated, 1..NumTargets
    attempts,        \* detection attempts started, per target
    samples,         \* the targets a Sample was emitted for, in order
    failedAt,        \* the target whose detection failed, 0 when none did
    exitStatus,      \* "running" | "exit0" | "exit1"
    \* ---- test_points.py __main__
    swPhase,         \* "coarse" | "fine" | "done"
    num,             \* the loop index num
    min,             \* min, the least error tracked
    min_offset,      \* min_offset, the candidate that attained it
    fk_plot,         \* the rows written to data/error_fk.csv
    windowStart,     \* first candidate of the phase-2 range (grid position)
    windowLen,       \* number of candidates of the phase-2 range
    coarseMin,       \* (min, min_offset) when phase 1 ended
    printed,         \* the offset printed
    \* ---- choose_filename and the file system it looks at
    files,           \* the paths that exist
    fpath,           \* the argument fpath
    new_fname,       \* the local new_fname
    cfI,             \* the local i, 0 while unassigned
    cfPc,            \* "idle" | "while" | "return" | "returned"
    returned,        \* the value the last call returned
    files0,          \* the paths that existed when the call began
    calls            \* calls made so far

analyzeVars ==
    <<offset_v_error, argsWrite, file, precision, runs, pre, last, searches, curve0>>

markerVars ==
    <<bad_callback, coord, n_bad_callbacks, cbPc, cbPoint, rdPc, rdAmbiguous,
      rdWindow, halted, latest, nUpdates, nChecks, nReturns, nNone, lastRead>>

recordVars ==
    <<recMode, cdState, coarseSteps, fineSteps, metCoarse, metFine, visited,
      target, attempts, samples, failedAt, exitStatus>>

sweepVars ==
    <<swPhase, num, min, min_offset, fk_plot, windowStart, windowLen, coarseMin,
      printed>>

chooseVars ==
    <<files, fpath, new_fname, cfI, cfPc, returned, files0, calls>>

vars == <<analyzeVars, markerVars, recordVars, sweepVars, chooseVars>>

\* What the commands of one program leave alone: the other programs' state
notAnalyze == <<markerVars, recordVars, sweepVars, chooseVars>>
notMarker == <<analyzeVars, recordVars, sweepVars, chooseVars>>
notRecord == <<analyzeVars, markerVars, sweepVars, chooseVars>>
notSweep == <<analyzeVars, markerVars, recordVars, chooseVars>>
notChoose == <<analyzeVars, markerVars, recordVars, sweepVars>>

---------------------------------------------------------------------------
(* Bounds of the model *)
MaxCurve == 2
MaxErr == 1
MaxElems == 2
MaxRuns == 2
MaxPoints == 2
MaxUpdates == 3
MaxReads == 3
GridN == 2
NumCoarse == 3
CoarseStep == 2
FineHalf == 2
MaxFiles == 2
MaxIndex == 2
MaxCalls == 2

---------------------------------------------------------------------------
(***************************************************************************)
(* Floating-point values.  A value is a whole number of units of 10^-13,   *)
(* kept in two limbs so that 14 and more significant decimal digits fit:   *)
(* [hi, lo] stands for hi * Limb + lo, 0 <= lo < Limb.                      *)
(***************************************************************************)
Limb == 10^7

RECURSIVE NDigits(_)
NDigits(n) == IF n < 10 THEN 1 ELSE 1 + NDigits(n \div 10)

LimbDigits == NDigits(Limb) - 1

Num(h, l) == [hi |-> h, lo |-> l]

\* k tenths, e.g. Tenths(5) is 0.5 and Tenths(-20) is -2.0
Tenths(k) == Num(k * 100000, 0)

Zero == Num(0, 0)

NumNeg(a) == IF a.lo = 0 THEN Num(-a.hi, 0) ELSE Num(-a.hi - 1, Limb - a.lo)

IsNeg(a) == a.hi < 0

NumAbs(a) == IF IsNeg(a) THEN NumNeg(a) ELSE a

\* x + y
NumAdd(a, b) ==
    LET s == a.lo + b.lo
    IN  Num(a.hi + b.hi + s \div Limb, s % Limb)

\* x rounded to a multiple of p, ties to even (x >= 0)
RoundTo(x, p) ==
    LET q == x \div p
        r == x % p
        up == (2 * r > p) \/ (2 * r = p /\ q % 2 = 1)
    IN  (IF up THEN q + 1 ELSE q) * p

\* x / 10, rounded to the unit
Div10(a) ==
    LET m == NumAbs(a)
        r == (m.hi % 10) * Limb + m.lo
        q == Num(m.hi \div 10, RoundTo(r, 10) \div 10)
        c == Num(q.hi + q.lo \div Limb, q.lo % Limb)
    IN  IF IsNeg(a) THEN NumNeg(c) ELSE c

\* x rounded to d significant decimal digits
RoundSig(a, d) ==
    LET m == NumAbs(a)
        nd == IF m.hi > 0 THEN LimbDigits + NDigits(m.hi) ELSE NDigits(m.lo)
        drop == nd - d
        r == IF drop <= 0 THEN m
             ELSE IF drop <= LimbDigits
                  THEN LET lo2 == RoundTo(m.lo, 10^drop)
                       IN  Num(m.hi + lo2 \div Limb, lo2 % Limb)
                  ELSE LET p == 10^(drop - LimbDigits)
                           q == m.hi \div p
                           rr == m.hi % p
                           up == (2 * rr > p) \/ (2 * rr = p /\ m.lo > 0)
                                 \/ (2 * rr = p /\ m.lo = 0 /\ q % 2 = 1)
                       IN  Num((IF up THEN q + 1 ELSE q) * p, 0)
    IN  IF IsNeg(a) THEN NumNeg(r) ELSE r

---------------------------------------------------------------------------
(***************************************************************************)
(* str() and float().  str(x) of a float writes "%.12g" under Python 2     *)
(* and numpy before 1.14, and the shortest text that reads back as x       *)
(* (at most 17 digits) otherwise.  A text is modelled by the number it     *)
(* denotes; float() reads it exactly.                                      *)
(***************************************************************************)
StrDigits == 12
ReprDigits == 17

NoAttr == [none |-> TRUE]

str(x, digits) == RoundSig(x, digits)

\* float(text): None raises TypeError
Float(text) == IF text = NoAttr THEN [ok |-> FALSE] ELSE [ok |-> TRUE, val |-> text]


---------------------------------------------------------------------------
(***************************************************************************)
(* The configuration document.  Of the XML tree only the elements the      *)
(* path ./Robot/Actuator/AnalogIn/VoltsToPosSI reaches carry state here:   *)
(* each VoltsToPosSI element, in document order, with the ActuatorID of    *)
(* the Actuator above it and its own attributes.  The file may also hold   *)
(* comments, which are not part of the tree.                               *)
(***************************************************************************)
ShortNum == Tenths(5)                 \* "0.5"
LongNum == Num(1234567, 8901234)      \* "1.2345678901234"

OffsetTexts == {NoAttr, ShortNum, LongNum}

ActuatorIDs == {"1", "2"}

Elements == [ActuatorID : ActuatorIDs, Offset : OffsetTexts, Scale : {"scale"}]

Trees == UNION {[1..n -> Elements] : n \in 0..MaxElems}

NoFile == [nofile |-> TRUE]

Files == [comment : BOOLEAN, elems : Trees]

\* ET.parse(path).getroot(): the default parser keeps elements and
\* attributes and discards comments
ET_parse(f) == f.elems

\* tree.write(path): serialises the elements of the tree
ET_write(tree) == [comment |-> FALSE, elems |-> tree]

\* root.findall("./Robot/Actuator[@ActuatorID='2']/AnalogIn/VoltsToPosSI"):
\* the matching elements in document order
RECURSIVE findall(_, _)
findall(tree, i) ==
    IF i > Len(tree) THEN <<>>
    ELSE (IF tree[i].ActuatorID = "2" THEN <<i>> ELSE <<>>) \o findall(tree, i + 1)

---------------------------------------------------------------------------
(***************************************************************************)
(* The minimum search over the OffsetCurve (numpy).                        *)
(***************************************************************************)
ValueError == [raised |-> "ValueError"]

\* offset_v_error[:, 1]
ErrorColumn(curve) == [i \in 1..Len(curve) |-> curve[i].error]

\* np.amin(a): the least element; raises ValueError on a zero-size array
RECURSIVE AminFrom(_, _, _)
AminFrom(a, i, m) ==
    IF i > Len(a) THEN m
    ELSE AminFrom(a, i + 1, IF a[i] < m THEN a[i] ELSE m)

amin(a) == IF Len(a) = 0 THEN ValueError ELSE [val |-> AminFrom(a, 2, a[1])]

\* np.where(a == m)[0]: the indices of the elements equal to m, ascending
RECURSIVE where(_, _, _)
where(a, m, i) ==
    IF i > Len(a) THEN <<>>
    ELSE (IF a[i] = m THEN <<i>> ELSE <<>>) \o where(a, m, i + 1)

NoResult == [noresult |-> TRUE]

\* calibrate.py:344  offset_v_error[np.where(err == np.amin(err))[0][0], 0] / 10
AnalyzeSearchLast(curve) ==
    LET err == ErrorColumn(curve)
        m == amin(err)
    IN  IF m = ValueError THEN NoResult
        ELSE LET hits == where(err, m.val, 1)
                 idx == hits[Len(hits)]
             IN  [idx |-> idx, value |-> Div10(curve[idx].offset)]

AnalyzeSearchPlaceholder(curve) ==
    LET err == ErrorColumn(curve)
    IN  IF Len(err) = 0 THEN [idx |-> 0, value |-> Zero]
        ELSE LET idx == where(err, amin(err).val, 1)[1]
             IN  [idx |-> idx, value |-> Div10(curve[idx].offset)]

AnalyzeSearchNoScale(curve) ==
    LET err == ErrorColumn(curve)
        m == amin(err)
    IN  IF m = ValueError THEN NoResult
        ELSE LET idx == where(err, m.val, 1)[1]
             IN  [idx |-> idx, value |-> curve[idx].offset]

AnalyzeSearch(curve) ==
    LET err == ErrorColumn(curve)
        m == amin(err)
    IN  IF m = ValueError THEN NoResult
        ELSE LET idx == where(err, m.val, 1)[1]
             IN  [idx |-> idx, value |-> Div10(curve[idx].offset)]

\* calibrate.py:306-316  offset_v_error[0, 0] raises IndexError on an empty
\* curve; min_idx and actual_min as in parse_analyze
ViewSearch(curve) ==
    IF Len(curve) = 0 THEN NoResult
    ELSE LET err == ErrorColumn(curve)
             min_idx == where(err, amin(err).val, 1)[1]
         IN  [idx |-> min_idx, value |-> Div10(curve[min_idx].offset)]

---------------------------------------------------------------------------
(***************************************************************************)
(* parse_analyze, after the search: the Config Patcher.                    *)
(***************************************************************************)
\* len(xpath_search_results) == 1
TargetFoundAny(results) == Len(results) >= 1

TargetFound(results) == Len(results) = 1

\* VoltsToPosSI.set("Offset", str(offset_correction + current_offset))
SetOffsetAll(tree, k, text) ==
    [i \in 1..Len(tree) |-> [tree[i] EXCEPT !.Offset = text]]

SetOffset(tree, k, text) == [tree EXCEPT ![k].Offset = text]

\* The outcome of one run of parse_analyze: exit status, the document left
\* on disk, the search result and whether tree.write ran.
Outcome(status, f, found, wrote) ==
    [status |-> status, file |-> f, found |-> found, wrote |-> wrote]

parse_analyze(curve, write, f, digits) ==
    LET found == AnalyzeSearch(curve)
    IN  IF found = NoResult THEN Outcome(1, f, NoResult, FALSE)
        ELSE IF write = "none" THEN Outcome(0, f, found, FALSE)
        ELSE IF write = "missing" THEN Outcome(1, f, found, FALSE)
        ELSE
          LET root == ET_parse(f)
              xpath_search_results == findall(root, 1)
          IN  IF ~TargetFound(xpath_search_results)
              THEN Outcome(1, f, found, FALSE)
              ELSE
                LET k == xpath_search_results[1]
                    current_offset == Float(root[k].Offset)
                IN  IF ~current_offset.ok THEN Outcome(1, f, found, FALSE)
                    ELSE Outcome(0,
                           ET_write(SetOffset(root, k,
                               str(NumAdd(found.value, current_offset.val), digits))),
                           found, TRUE)

\* parse_view on offset_v_error.csv: prints the minimum, writes nothing
parse_view(curve, f) ==
    LET found == ViewSearch(curve)
    IN  Outcome(IF found = NoResult THEN 1 ELSE 0, f, found, FALSE)

---------------------------------------------------------------------------
(***************************************************************************)
(* marker.py: Marker.  rospy runs callback on the subscriber's thread      *)
(* while the main thread calls get_current_position; each attribute read   *)
(* or write is one step.                                                   *)
(***************************************************************************)
Points == {"p1", "p2"}

\* np.zeros((3))
Origin == "zeros"

\* data.points of one PointCloud message
Messages == UNION {[1..n -> Points] : n \in 0..MaxPoints}

NoUpdate == <<"NoUpdate">>

None == "None"

NoRead == [noread |-> TRUE]

\* What the latest update offers a reader: its point, or why there is none
Reading(u) ==
    IF u = NoUpdate THEN "unavailable"
    ELSE IF Len(u) # 1 THEN "ambiguous"
    ELSE u[1]

\* Marker.__init__
MarkerInit ==
    /\ coord = Origin
    /\ bad_callback = FALSE
    /\ n_bad_callbacks = 0
    /\ cbPc = "idle" /\ cbPoint = Origin
    /\ rdPc = "idle" /\ rdAmbiguous = FALSE /\ rdWindow = {} /\ halted = FALSE
    /\ latest = NoUpdate
    /\ nUpdates = 0 /\ nChecks = 0 /\ nReturns = 0 /\ nNone = 0
    /\ lastRead = NoRead

\* No tracker is part of the run
MarkerIdle == MarkerInit

\* Marker.callback, lines 15-22: the flag the message sets
CallbackFlagSticky(points, flag) ==
    flag \/ Len(points) > 1 \/ Len(points) = 0

CallbackFlag(points, flag) ==
    IF Len(points) > 1 THEN TRUE
    ELSE IF Len(points) = 0 THEN TRUE
    ELSE FALSE

\* Marker.callback, what it does to n_bad_callbacks: nothing
CallbackCountBad(points, n) == IF Len(points) # 1 THEN n + 1 ELSE n

CallbackCount(points, n) == n

Callback(points) ==
    /\ cbPc = "idle"
    /\ nUpdates < MaxUpdates
    /\ nUpdates' = nUpdates + 1
    /\ latest' = points
    /\ bad_callback' = CallbackFlag(points, bad_callback)
    /\ n_bad_callbacks' = CallbackCount(points, n_bad_callbacks)
    /\ IF Len(points) = 1
       THEN cbPc' = "store" /\ cbPoint' = points[1]
       ELSE UNCHANGED <<cbPc, cbPoint>>
    /\ rdWindow' = IF rdPc = "idle" THEN rdWindow ELSE rdWindow \cup {Reading(points)}
    /\ UNCHANGED <<coord, rdPc, rdAmbiguous, halted, nChecks, nReturns, nNone,
                   lastRead>>
    /\ UNCHANGED notMarker

\* Marker.callback, lines 23-26
CallbackStore ==
    /\ cbPc = "store"
    /\ coord' = cbPoint
    /\ cbPc' = "idle"
    /\ UNCHANGED <<bad_callback, n_bad_callbacks, cbPoint, rdPc, rdAmbiguous,
                   rdWindow, halted, latest, nUpdates, nChecks, nReturns, nNone,
                   lastRead>>
    /\ UNCHANGED notMarker

\* Marker.get_current_position, line 29
ReadCheck ==
    /\ rdPc = "idle" /\ ~halted
    /\ nChecks < MaxReads
    /\ nChecks' = nChecks + 1
    /\ rdPc' = IF bad_callback THEN "bad" ELSE "good"
    /\ rdAmbiguous' = (latest # NoUpdate /\ Len(latest) # 1)
    /\ rdWindow' = {Reading(latest)}
    /\ UNCHANGED <<bad_callback, coord, n_bad_callbacks, cbPc, cbPoint, halted,
                   latest, nUpdates, nReturns, nNone, lastRead>>
    /\ UNCHANGED notMarker

\* Marker.get_current_position, lines 30-33: what the read returns, the
\* counter it leaves, and whether it stops the run
get_current_position_uncounted(bad, n, c) ==
    IF bad THEN [ret |-> None, n |-> n, halt |-> FALSE]
    ELSE [ret |-> c, n |-> n, halt |-> FALSE]

get_current_position(bad, n, c) ==
    IF bad THEN [ret |-> None, n |-> n + 1, halt |-> FALSE]
    ELSE [ret |-> c, n |-> n, halt |-> FALSE]

ReadReturn ==
    /\ rdPc # "idle"
    /\ LET r == get_current_position(rdPc = "bad", n_bad_callbacks, coord)
       IN  /\ n_bad_callbacks' = r.n
           /\ halted' = r.halt
           /\ nNone' = IF r.ret = None THEN nNone + 1 ELSE nNone
           /\ lastRead' = [ambiguous |-> rdAmbiguous, ret |-> r.ret,
                           counted |-> r.n - n_bad_callbacks,
                           window |-> rdWindow]
    /\ nReturns' = nReturns + 1
    /\ rdPc' = "idle"
    /\ rdWindow' = {}
    /\ UNCHANGED <<bad_callback, coord, cbPc, cbPoint, rdAmbiguous, latest,
                   nUpdates, nChecks>>
    /\ UNCHANGED notMarker

---------------------------------------------------------------------------
(***************************************************************************)
(* calibrate.py record.  The Contact Detector (PlaneCalibration.palpate)   *)
(* and the grid loop (PlaneCalibration.record_points) are modelled from    *)
(* the specification, section 4.2; parse_record's handling of a single     *)
(* palpation is modelled from calibrate.py.                                *)
(***************************************************************************)
K_max == 20

\* N * N grid targets for N samples per row; one target for a single palpation
NumTargets(mode) == IF mode = "grid" THEN GridN * GridN ELSE 1

Terminal == {"CONTACT_FOUND", "CONTACT_FAILED"}

\* No record command is part of the run
RecordIdle ==
    /\ recMode = "off" /\ cdState = "OFF" /\ coarseSteps = 0 /\ fineSteps = 0
    /\ metCoarse = 0 /\ metFine = 0 /\ visited = <<>> /\ target = 0
    /\ attempts = <<>> /\ samples = <<>> /\ failedAt = 0 /\ exitStatus = "exit0"

\* The run is at its first target, the arm at the safe clearance above it
RecordInit ==
    /\ recMode \in {"single", "grid"}
    /\ cdState = "APPROACH" /\ coarseSteps = 0 /\ fineSteps = 0
    /\ metCoarse = 0 /\ metFine = 0 /\ visited = <<"APPROACH">>
    /\ target = 1
    /\ attempts = [t \in 1..NumTargets(recMode) |-> IF t = 1 THEN 1 ELSE 0]
    /\ samples = <<>> /\ failedAt = 0 /\ exitStatus = "running"

\* K_max steps were taken without meeting the threshold
ExhaustedNever(steps) == FALSE

Exhausted(steps) == steps >= K_max

\* The state after one descent step in state `here`: on to `onward` once
\* the threshold is met, CONTACT_FAILED once K_max steps are exhausted
AfterStep(here, onward, steps, hit) ==
    IF hit THEN onward
    ELSE IF Exhausted(steps) THEN "CONTACT_FAILED"
    ELSE here

Enter(state) ==
    /\ cdState' = state
    /\ visited' = IF state = cdState THEN visited ELSE Append(visited, state)
    /\ failedAt' = IF state = "CONTACT_FAILED" THEN target ELSE failedAt

\* APPROACH: move to the target at the safe clearance, then descend
Approach ==
    /\ exitStatus = "running" /\ cdState = "APPROACH"
    /\ Enter("COARSE_DESCEND")
    /\ UNCHANGED <<recMode, coarseSteps, fineSteps, metCoarse, metFine, target,
                   attempts, samples, exitStatus>>
    /\ UNCHANGED notRecord

\* COARSE_DESCEND: one coarse step, then read the force
CoarseDescend ==
    /\ exitStatus = "running" /\ cdState = "COARSE_DESCEND"
    /\ \E hit \in BOOLEAN :
          /\ coarseSteps' = coarseSteps + 1
          /\ metCoarse' = IF hit THEN metCoarse + 1 ELSE metCoarse
          /\ Enter(AfterStep("COARSE_DESCEND", "FINE_DESCEND", coarseSteps + 1, hit))
    /\ UNCHANGED <<recMode, fineSteps, metFine, target, attempts, samples, exitStatus>>
    /\ UNCHANGED notRecord

\* FINE_DESCEND: one fine step, then read the force
FineDescend ==
    /\ exitStatus = "running" /\ cdState = "FINE_DESCEND"
    /\ \E hit \in BOOLEAN :
          /\ fineSteps' = fineSteps + 1
          /\ metFine' = IF hit THEN metFine + 1 ELSE metFine
          /\ Enter(AfterStep("FINE_DESCEND", "CONTACT_FOUND", fineSteps + 1, hit))
    /\ UNCHANGED <<recMode, coarseSteps, metCoarse, target, attempts, samples, exitStatus>>
    /\ UNCHANGED notRecord

\* What the run does with the outcome of one palpation: whether a Sample is
\* emitted, and "next" (go on to the next target), "exit0" or "exit1".
Step(emit, then) == [emit |-> emit, then |-> then]

\* calibrate.py:240-244: a single palpation
parse_record_single_continue(found) == Step(TRUE, "exit0")

parse_record_single(found) ==
    IF ~found THEN Step(FALSE, "exit1")
    ELSE Step(TRUE, "exit0")

\* The grid loop: a Sample per contact found, the run aborted on a failure
record_points(found, t, n) ==
    IF ~found THEN Step(FALSE, "exit1")
    ELSE IF t < n THEN Step(TRUE, "next")
    ELSE Step(TRUE, "exit0")

AfterPalpation(found) ==
    IF recMode = "single" THEN parse_record_single(found)
    ELSE record_points(found, target, NumTargets(recMode))

Handle(step) ==
    /\ samples' = IF step.emit THEN Append(samples, target) ELSE samples
    /\ IF step.then = "next"
       THEN /\ target' = target + 1
            /\ attempts' = [attempts EXCEPT ![target + 1] = @ + 1]
            /\ cdState' = "APPROACH" /\ visited' = <<"APPROACH">>
            /\ coarseSteps' = 0 /\ fineSteps' = 0 /\ metCoarse' = 0 /\ metFine' = 0
            /\ UNCHANGED exitStatus
       ELSE /\ exitStatus' = step.then
            /\ UNCHANGED <<target, attempts, cdState, visited, coarseSteps,
                           fineSteps, metCoarse, metFine>>
    /\ UNCHANGED <<recMode, failedAt>>
    /\ UNCHANGED notRecord

\* CONTACT_FOUND: retract, emit one Sample, go on
ContactFound ==
    /\ exitStatus = "running" /\ cdState = "CONTACT_FOUND"
    /\ Handle(AfterPalpation(TRUE))

\* CONTACT_FAILED: the surface was not reached
ContactFailed ==
    /\ exitStatus = "running" /\ cdState = "CONTACT_FAILED"
    /\ Handle(AfterPalpation(FALSE))

---------------------------------------------------------------------------
(***************************************************************************)
(* test_points.py __main__: the two-phase offset sweep.                    *)
(*                                                                         *)
(* Offsets are counted in fine steps (0.0001).  The model sweeps NumCoarse *)
(* coarse candidates CoarseStep fine steps apart (990 candidates 10 fine   *)
(* steps apart in the program) and a fine window of half-width FineHalf    *)
(* fine steps (200 in the program).                                        *)
(*                                                                         *)
(* np.arange on floats computes start + i * step in floating point, so a   *)
(* phase-2 candidate need not be the very float phase 1 evaluated at the   *)
(* same grid position, and the range may hold one element more than        *)
(* (stop - start) / step.  An offset is [g, r]: the grid position g and    *)
(* r = 0 for the float phase 1 produces there, r = 1 for a float that      *)
(* differs from it by rounding.  The fit error is a function of the float. *)
(***************************************************************************)
FineStep == 1

Offset(g, r) == [g |-> g, r |-> r]

\* min = 0, min_offset = 0 (lines 71-72)
Placeholder == Offset(0, 0)

CoarseLo == 0 - CoarseStep * (NumCoarse - 1)

\* np.arange(lo, hi, step) on exact values
Arange(lo, hi, step) ==
    [i \in 1..((hi - lo + step - 1) \div step) |-> lo + (i - 1) * step]

\* np.arange(-.9, .09, .001)
CoarseCandidates ==
    LET a == Arange(CoarseLo, CoarseLo + NumCoarse * CoarseStep, CoarseStep)
    IN  [i \in 1..Len(a) |-> Offset(a[i], 0)]

\* np.arange(min_offset - 0.02, min_offset + 0.02, 0.0001): its length
FineLengths(m) ==
    LET n == Len(Arange(m.g - FineHalf, m.g + FineHalf, FineStep))
    IN  {n, n + 1}

\* ... and its element i (from 0), as floating point produces it
FineCandidates(start, i) ==
    {Offset(start + i * FineStep, r) : r \in {0, 1}}

\* gen_best_fit_error at an offset: a function of the offset, so the error
\* phase 1 wrote for the same float is the error again
FitErrors(offset, rows) ==
    IF \E k \in 1..Len(rows) : rows[k].offset = offset
    THEN {rows[k].error : k \in {j \in 1..Len(rows) : rows[j].offset = offset}}
    ELSE 0..MaxErr

Tracked(m, o) == [min |-> m, min_offset |-> o]

\* lines 83-85
CoarseUpdateLE(n, error, offset, m, o) ==
    IF n = 0 \/ error <= m THEN Tracked(error, offset) ELSE Tracked(m, o)

CoarseUpdate(n, error, offset, m, o) ==
    IF n = 0 \/ error < m THEN Tracked(error, offset) ELSE Tracked(m, o)

\* lines 98-100
FineUpdate(n, error, offset, m, o) ==
    IF n = 0 \/ error < m THEN Tracked(error, offset) ELSE Tracked(m, o)

NoMin == [nomin |-> TRUE]

\* No sweep is part of the run
SweepIdle ==
    /\ swPhase = "off" /\ num = 0 /\ min = 0 /\ min_offset = Placeholder
    /\ fk_plot = <<>> /\ windowStart = 0 /\ windowLen = 0 /\ coarseMin = NoMin
    /\ printed = NoMin

SweepInit ==
    /\ swPhase = "coarse" /\ num = 0 /\ min = 0 /\ min_offset = Placeholder
    /\ fk_plot = <<>> /\ windowStart = 0 /\ windowLen = 0 /\ coarseMin = NoMin
    /\ printed = NoMin

\* lines 76-86: one candidate of phase 1
CoarseIter ==
    /\ swPhase = "coarse" /\ num < Len(CoarseCandidates)
    /\ LET offset == CoarseCandidates[num + 1]
       IN  \E error \in FitErrors(offset, fk_plot) :
              LET t == CoarseUpdate(num, error, offset, min, min_offset)
              IN  /\ min' = t.min
                  /\ min_offset' = t.min_offset
                  /\ fk_plot' = Append(fk_plot, [offset |-> offset, error |-> error])
    /\ num' = num + 1
    /\ UNCHANGED <<swPhase, windowStart, windowLen, coarseMin, printed>>
    /\ UNCHANGED notSweep

\* lines 89-91: phase 1 is over, the phase-2 range is computed
StartFine ==
    /\ swPhase = "coarse" /\ num = Len(CoarseCandidates)
    /\ swPhase' = "fine"
    /\ num' = 0
    /\ coarseMin' = Tracked(min, min_offset)
    /\ windowStart' = min_offset.g - FineHalf
    /\ windowLen' \in FineLengths(min_offset)
    /\ UNCHANGED <<min, min_offset, fk_plot, printed>>
    /\ UNCHANGED notSweep

\* lines 92-100: one candidate of phase 2
FineIter ==
    /\ swPhase = "fine" /\ num < windowLen
    /\ \E offset \in FineCandidates(windowStart, num) :
          \E error \in FitErrors(offset, fk_plot) :
             LET t == FineUpdate(num, error, offset, min, min_offset)
             IN  /\ min' = t.min
                 /\ min_offset' = t.min_offset
    /\ num' = num + 1
    /\ UNCHANGED <<swPhase, fk_plot, windowStart, windowLen, coarseMin, printed>>
    /\ UNCHANGED notSweep

\* line 102
PrintMinOffset ==
    /\ swPhase = "fine" /\ num = windowLen
    /\ printed' = min_offset
    /\ swPhase' = "done"
    /\ UNCHANGED <<num, min, min_offset, fk_plot, windowStart, windowLen, coarseMin>>
    /\ UNCHANGED notSweep

---------------------------------------------------------------------------
(***************************************************************************)
(* choose_filename (calibrate.py:81-93, the same text in test_points.py)   *)
(* and its caller, test_points.py:74.  A path is the sequence of its       *)
(* characters.                                                             *)
(***************************************************************************)
Path(chars) == chars

\* The paths asked for: a.b, .a, a.b/a, a_1.b
Requests ==
    { Path(<<"a", ".", "b">>),
      Path(<<".", "a">>),
      Path(<<"a", ".", "b", "/", "a">>),
      Path(<<"a", "_", "1", ".", "b">>) }

\* str.rfind: the last index of character c in p, 0 when there is none
rfind(p, c) ==
    LET at == {k \in 1..Len(p) : p[k] = c}
    IN  IF at = {} THEN 0 ELSE CHOOSE k \in at : \A j \in at : j <= k

\* os.path.splitext: the extension starts at the last dot of the last
\* component, unless only dots come before it in that component
splitext(p) ==
    LET sepIndex == rfind(p, "/")
        dotIndex == rfind(p, ".")
    IN  IF /\ dotIndex > sepIndex
           /\ \E k \in (sepIndex + 1)..(dotIndex - 1) : p[k] # "."
        THEN [fname |-> SubSeq(p, 1, dotIndex - 1),
              file_ext |-> SubSeq(p, dotIndex, Len(p))]
        ELSE [fname |-> p, file_ext |-> <<>>]

DigitChars == <<"0", "1", "2", "3", "4", "5", "6", "7", "8", "9">>

\* "{}".format(i) for an int i >= 0: its decimal digits
RECURSIVE FormatInt(_)
FormatInt(n) ==
    IF n < 10 THEN <<DigitChars[n + 1]>>
    ELSE FormatInt(n \div 10) \o <<DigitChars[(n % 10) + 1]>>

\* "{}_{}{}".format(fname, i, file_ext)
format(fname, n, file_ext) == fname \o <<"_">> \o FormatInt(n) \o file_ext

\* os.path.exists
exists(fs, p) == p \in fs

\* i += 1
IncrementSkips(n) == n + 2

Increment(n) == n + 1

\* Every path a call can look at for a request
Candidates(p) ==
    {p} \cup {format(splitext(p).fname, n, splitext(p).file_ext) : n \in 1..MaxIndex}

FileSystems ==
    {fs \in SUBSET (UNION {Candidates(p) : p \in Requests}) :
        Cardinality(fs) <= MaxFiles}

\* No path is being chosen in the run
ChooseIdle ==
    /\ files = {} /\ fpath = <<>> /\ new_fname = <<>> /\ cfI = 0 /\ cfPc = "off"
    /\ returned = <<>> /\ files0 = {} /\ calls = 0

ChooseInit ==
    /\ files \in FileSystems
    /\ fpath = <<>> /\ new_fname = <<>> /\ cfI = 0 /\ cfPc = "idle"
    /\ returned = <<>> /\ files0 = files /\ calls = 0

\* lines 84-89: the call, up to the first test of the while loop
Call(p) ==
    /\ cfPc = "idle" /\ calls < MaxCalls
    /\ calls' = calls + 1
    /\ fpath' = p
    /\ files0' = files
    /\ IF ~exists(files, p)
       THEN /\ new_fname' = p
            /\ cfI' = 0
            /\ cfPc' = "return"
       ELSE LET parts == splitext(p)
            IN  /\ cfI' = 1
                /\ new_fname' = format(parts.fname, 1, parts.file_ext)
                /\ cfPc' = "while"
    /\ UNCHANGED <<files, returned>>
    /\ UNCHANGED notChoose

choose_filename == \E p \in Requests : Call(p)

\* lines 90-92: one iteration of the while loop
WhileBody ==
    /\ cfPc = "while" /\ exists(files, new_fname)
    /\ cfI' = Increment(cfI)
    /\ new_fname' = format(splitext(fpath).fname, Increment(cfI),
                           splitext(fpath).file_ext)
    /\ UNCHANGED <<files, fpath, cfPc, returned, files0, calls>>
    /\ UNCHANGED notChoose

\* line 90: the test fails, the loop is left
WhileExit ==
    /\ cfPc = "while" /\ ~exists(files, new_fname)
    /\ cfPc' = "return"
    /\ UNCHANGED <<files, fpath, new_fname, cfI, returned, files0, calls>>
    /\ UNCHANGED notChoose

\* line 93
Return ==
    /\ cfPc = "return"
    /\ returned' = new_fname
    /\ cfPc' = "returned"
    /\ UNCHANGED <<files, fpath, new_fname, cfI, files0, calls>>
    /\ UNCHANGED notChoose

\* test_points.py:74: open(choose_filename(...), 'w') creates the file
OpenForWrite ==
    /\ cfPc = "returned"
    /\ files' = files \cup {returned}
    /\ cfPc' = "idle"
    /\ UNCHANGED <<fpath, new_fname, cfI, returned, files0, calls>>
    /\ UNCHANGED notChoose

---------------------------------------------------------------------------
(***************************************************************************)
(* SpecAnalyze: analyze and view commands run on one data folder and one   *)
(* configuration document.                                                 *)
(***************************************************************************)
\* Row i of the curve holds candidate i - 2 (tenths of a millimetre), so the
\* offsets are strictly increasing and of both signs.
CurveOffsetAt(i) == Tenths(10 * (i - 2))

Curves ==
    UNION {{[i \in 1..n |-> [offset |-> CurveOffsetAt(i), error |-> e[i]]] :
              e \in [1..n -> 0..MaxErr]} : n \in 0..MaxCurve}

NoRun == [norun |-> TRUE]

\* No analyze or view command is part of the run
AnalyzeIdle ==
    /\ offset_v_error = <<>> /\ curve0 = <<>> /\ argsWrite = "none"
    /\ file = NoFile /\ pre = NoFile /\ precision = StrDigits
    /\ runs = 0 /\ last = NoRun /\ searches = <<>>

AnalyzeOnly == MarkerIdle /\ RecordIdle /\ SweepIdle /\ ChooseIdle

InitAnalyze ==
    /\ AnalyzeOnly
    /\ offset_v_error \in Curves
    /\ argsWrite \in {"none", "missing", "exists"}
    /\ IF argsWrite = "missing" THEN file = NoFile ELSE file \in Files
    /\ precision \in {StrDigits, ReprDigits}
    /\ runs = 0
    /\ pre = file
    /\ last = NoRun
    /\ searches = <<>>
    /\ curve0 = offset_v_error

Ran(cmd, out) ==
    /\ runs' = runs + 1
    /\ pre' = file
    /\ file' = out.file
    /\ last' = [cmd |-> cmd, status |-> out.status, found |-> out.found,
                wrote |-> out.wrote]
    /\ searches' = IF out.found = NoResult THEN searches
                   ELSE Append(searches, out.found)
    /\ UNCHANGED <<offset_v_error, argsWrite, precision, curve0>>
    /\ UNCHANGED notAnalyze

ParseAnalyze ==
    /\ runs < MaxRuns
    /\ Ran("analyze", parse_analyze(offset_v_error, argsWrite, file, precision))

ParseView ==
    /\ runs < MaxRuns
    /\ Ran("view", parse_view(offset_v_error, file))

NextAnalyze == ParseAnalyze \/ ParseView

SpecAnalyze == InitAnalyze /\ [][NextAnalyze]_vars

---------------------------------------------------------------------------
(***************************************************************************)
(* Claims about the Config Patcher and the minimum search (SpecAnalyze).   *)
(***************************************************************************)
\* The elements the fixed path addresses, stated on the tree itself
Matched(tree) == {i \in 1..Len(tree) : tree[i].ActuatorID = "2"}

\* The first row that attains the least error of a non-empty curve
FirstMinRow(curve) ==
    CHOOSE i \in 1..Len(curve) :
        /\ \A j \in 1..Len(curve) : curve[i].error <= curve[j].error
        /\ \A j \in 1..(i - 1) : curve[j].error > curve[i].error

LastAnalyze == last # NoRun /\ last.cmd = "analyze"

Patched == LastAnalyze /\ last.wrote

\* For a patched document: the element patched, the offset stored before,
\* the offset read back, and the curve offset the search selected
Target == CHOOSE k \in Matched(ET_parse(pre)) : TRUE
OldOffset == Float(ET_parse(pre)[Target].Offset).val
ReadBack == Float(ET_parse(file)[Target].Offset).val
Selected == offset_v_error[FirstMinRow(offset_v_error)].offset

\* C1: when the write target exists, the patch is applied only if the path
\* matches exactly one element; with zero or several matches the run ends
\* with a non-zero status and the document is left exactly as it was.
C1_TargetSelection ==
    (LastAnalyze /\ argsWrite = "exists") =>
        LET n == Cardinality(Matched(ET_parse(pre)))
        IN  /\ (n # 1 => last.status # 0 /\ ~last.wrote /\ file = pre)
            /\ (last.wrote => n = 1)

C1_Witness ==
    /\ LastAnalyze /\ argsWrite = "exists"
    /\ last.found # NoResult
    /\ Cardinality(Matched(ET_parse(pre))) > 1
    /\ last.status = 1 /\ file = pre

\* C2 as stated: after a successful patch, reading the offset back yields
\* oldOffset + correction, correction being the offset selected from the
\* OffsetCurve.
C2_AsStated == Patched => ReadBack = NumAdd(OldOffset, Selected)

\* C2 amended: after a successful patch, reading the offset back yields
\* oldOffset + selected / 10 (tenths of a millimetre to millimetres) rounded
\* to the significant digits str() writes; it is oldOffset + selected / 10
\* exactly when str() writes the shortest text that reads back.
C2_RoundTrip ==
    Patched =>
        LET sum == NumAdd(OldOffset, Div10(Selected))
        IN  /\ ReadBack = RoundSig(sum, precision)
            /\ (precision = ReprDigits => ReadBack = sum)

C2_Witness ==
    /\ Patched
    /\ Selected # Zero
    /\ precision = StrDigits
    /\ ReadBack # NumAdd(OldOffset, Div10(Selected))

C7_Idempotent ==
    /\ offset_v_error = curve0
    /\ \A i \in 1..Len(searches) :
          /\ searches[i].idx = FirstMinRow(offset_v_error)
          /\ searches[i].value = Div10(Selected)
          /\ \A j \in 1..Len(searches) : searches[j] = searches[i]

C7_Witness ==
    /\ Len(searches) >= 2
    /\ \E i, j \in 1..Len(offset_v_error) :
          /\ i < j
          /\ offset_v_error[i].error = offset_v_error[j].error
          /\ \A k \in 1..Len(offset_v_error) :
                offset_v_error[i].error <= offset_v_error[k].error

\* C8: with an empty curve the search fails: the run ends with a non-zero
\* status, yields no offset (the placeholder 0 is never reported) and never
\* reaches the configuration write.
C8_EmptyCurve ==
    (offset_v_error = <<>> /\ last # NoRun) =>
        /\ last.status # 0
        /\ last.found = NoResult
        /\ ~last.wrote
        /\ file = pre
        /\ searches = <<>>

C8_Witness ==
    /\ offset_v_error = <<>>
    /\ LastAnalyze /\ argsWrite = "exists"
    /\ Cardinality(Matched(ET_parse(file))) = 1
    /\ \A i \in Matched(ET_parse(file)) : ET_parse(file)[i].Offset # NoAttr

---------------------------------------------------------------------------
(***************************************************************************)
(* SpecMarker: tracker updates racing reads, and the claims about them.    *)
(***************************************************************************)
ReceiveUpdate == \E points \in Messages : Callback(points)

NextMarker == ReceiveUpdate \/ CallbackStore \/ ReadCheck \/ ReadReturn

InitMarker ==
    MarkerInit /\ AnalyzeIdle /\ RecordIdle /\ SweepIdle /\ ChooseIdle

SpecMarker == InitMarker /\ [][NextMarker]_vars

\* The most recent update carried zero points or more than one
Ambiguous == latest # NoUpdate /\ Len(latest) # 1

\* C4: a read made while the latest update is ambiguous returns no point and
\* counts one bad sample; it is made once and does not stop the run; the
\* counter is the number of reads that returned no point, whatever updates
\* arrived in between.
C4_BadSamples ==
    /\ n_bad_callbacks = nNone
    /\ nChecks = nReturns + (IF rdPc = "idle" THEN 0 ELSE 1)
    /\ ~halted
    /\ lastRead # NoRead =>
          /\ lastRead.ambiguous => (lastRead.ret = None /\ lastRead.counted = 1)
          /\ lastRead.ret # None => lastRead.counted = 0

C4_Witness ==
    /\ lastRead # NoRead /\ lastRead.ambiguous /\ lastRead.ret = None
    /\ n_bad_callbacks = 2
    /\ nUpdates = 3
    /\ ~Ambiguous
    /\ rdPc = "idle"

\* A reading that justifies returning no point
Unusable == {"unavailable", "ambiguous"}

\* C11: a read returns a point only if an update was received and the most
\* recent update carried exactly one point, the point returned; with no
\* update yet, or a most recent update of zero or several points, the read
\* returns no point.  "Most recent" is taken at any instant of the read.
C11_LatestValue ==
    lastRead # NoRead =>
        /\ lastRead.ret # None =>
              lastRead.ret \in lastRead.window \ Unusable
        /\ lastRead.ret = None => lastRead.window \cap Unusable # {}

\* The part of C11 the Marker does keep: an ambiguous update leaves the
\* stored point as it was
C11_AmbiguousKeepsPoint ==
    [][(nUpdates' # nUpdates /\ Len(latest') # 1) => coord' = coord]_vars

\* ... and a read returns no point exactly when the flag was set at line 29,
\* which the last update that had finished its line 15-22 decided
C11_FlagDecides ==
    /\ rdPc = "bad" => rdWindow \cap Unusable # {}
    /\ lastRead # NoRead /\ lastRead.ret # None =>
          lastRead.ret \in Points \cup {Origin}

---------------------------------------------------------------------------
(***************************************************************************)
(* SpecRecord: one record run, and the claims about contact detection.     *)
(* FairSpecRecord adds that the run, a synchronous loop, keeps going       *)
(* until it exits.                                                         *)
(***************************************************************************)
NextRecord == Approach \/ CoarseDescend \/ FineDescend \/ ContactFound \/ ContactFailed

InitRecord ==
    RecordInit /\ AnalyzeIdle /\ MarkerIdle /\ SweepIdle /\ ChooseIdle

SpecRecord == InitRecord /\ [][NextRecord]_vars

FairSpecRecord == SpecRecord /\ WF_vars(NextRecord)

Orders ==
    { <<"APPROACH">>,
      <<"APPROACH", "COARSE_DESCEND">>,
      <<"APPROACH", "COARSE_DESCEND", "CONTACT_FAILED">>,
      <<"APPROACH", "COARSE_DESCEND", "FINE_DESCEND">>,
      <<"APPROACH", "COARSE_DESCEND", "FINE_DESCEND", "CONTACT_FOUND">>,
      <<"APPROACH", "COARSE_DESCEND", "FINE_DESCEND", "CONTACT_FAILED">> }

C5_Steps ==
    /\ visited \in Orders /\ cdState = visited[Len(visited)]
    /\ coarseSteps <= K_max /\ fineSteps <= K_max
    /\ coarseSteps + fineSteps <= 2 * K_max
    /\ cdState \in {"FINE_DESCEND", "CONTACT_FOUND"} => metCoarse = 1
    /\ cdState = "CONTACT_FOUND" => metFine = 1
    /\ cdState \in {"APPROACH", "COARSE_DESCEND"} => fineSteps = 0

\* C5: a detection attempt passes APPROACH, COARSE_DESCEND, FINE_DESCEND in
\* that order, takes at most K_max coarse and at most K_max fine steps, and
\* always ends in CONTACT_FOUND or CONTACT_FAILED; CONTACT_FOUND only after
\* the threshold was met once in each descent.
C5_BoundedTermination ==
    /\ []C5_Steps
    /\ [](cdState = "APPROACH" => <>(cdState \in Terminal))

C5_Witness ==
    /\ cdState = "CONTACT_FOUND"
    /\ coarseSteps = K_max /\ fineSteps = K_max

\* C6: once detection ends in CONTACT_FAILED the run can only exit with a
\* non-zero status: the search is not tried again, no later target is
\* attempted, and no Sample is emitted for the failed target or a later one.
C6_FailureIsFatal ==
    /\ failedAt # 0 =>
          /\ cdState = "CONTACT_FAILED" /\ target = failedAt
          /\ attempts[failedAt] = 1
          /\ \A t \in (failedAt + 1)..Len(attempts) : attempts[t] = 0
          /\ \A i \in 1..Len(samples) : samples[i] < failedAt
          /\ exitStatus \in {"running", "exit1"}
    /\ exitStatus = "exit1" => failedAt # 0
    /\ cdState = "CONTACT_FAILED" => failedAt = target

C6_Witness ==
    /\ recMode = "grid"
    /\ failedAt = 2 /\ exitStatus = "exit1"
    /\ samples = <<1>>

---------------------------------------------------------------------------
(***************************************************************************)
(* SpecSweep: one run of test_points.py, and the claims about the sweep.   *)
(***************************************************************************)
NextSweep == CoarseIter \/ StartFine \/ FineIter \/ PrintMinOffset

InitSweep ==
    SweepInit /\ AnalyzeIdle /\ MarkerIdle /\ RecordIdle /\ ChooseIdle

SpecSweep == InitSweep /\ [][NextSweep]_vars

\* C9: in phase 1 one row is written per candidate, in strictly increasing
\* offset order, and after each candidate (min, min_offset) is the least
\* error so far and the earliest candidate that attained it; when phase 1
\* ends the tracked candidate is the first row with the least error.
C9_RunningMinimum ==
    LET n == Len(fk_plot)
    IN  /\ swPhase = "coarse" => n = num
        /\ swPhase \in {"fine", "done"} => n = Len(CoarseCandidates)
        /\ \A i \in 1..n : fk_plot[i].offset = CoarseCandidates[i]
        /\ \A i \in 1..(n - 1) : fk_plot[i].offset.g < fk_plot[i + 1].offset.g
        /\ (swPhase = "coarse" /\ n >= 1) =>
              /\ min = fk_plot[FirstMinRow(fk_plot)].error
              /\ min_offset = fk_plot[FirstMinRow(fk_plot)].offset
        /\ swPhase \in {"fine", "done"} =>
              /\ coarseMin.min = fk_plot[FirstMinRow(fk_plot)].error
              /\ coarseMin.min_offset = fk_plot[FirstMinRow(fk_plot)].offset

C9_Witness ==
    /\ swPhase = "fine"
    /\ coarseMin.min_offset = fk_plot[2].offset
    /\ fk_plot[3].error = fk_plot[2].error

\* C10: the offset selected after phase 2 lies within the half-width of the
\* window around the phase-1 minimum offset, and its fit error is not
\* greater than the phase-1 minimum error.
C10_FineRefines ==
    swPhase = "done" =>
        /\ printed.g >= coarseMin.min_offset.g - FineHalf
        /\ printed.g <= coarseMin.min_offset.g + FineHalf
        /\ min <= coarseMin.min

\* The part of C10 the sweep does keep: the window
C10_InsideWindow ==
    swPhase = "done" =>
        /\ printed = min_offset
        /\ printed.g >= coarseMin.min_offset.g - FineHalf
        /\ printed.g <= coarseMin.min_offset.g + FineHalf

---------------------------------------------------------------------------
(***************************************************************************)
(* SpecChoose: calls of choose_filename, each followed by the caller       *)
(* creating the file.  FairSpecChoose adds that the call, a sequential     *)
(* loop, keeps running until it returns.                                   *)
(***************************************************************************)
NextChoose == choose_filename \/ WhileBody \/ WhileExit \/ Return \/ OpenForWrite

InitChoose ==
    ChooseInit /\ AnalyzeIdle /\ MarkerIdle /\ RecordIdle /\ SweepIdle

SpecChoose == InitChoose /\ [][NextChoose]_vars

FairSpecChoose == SpecChoose /\ WF_vars(NextChoose)

\* <name>_<i><ext> for the requested path
Numbered(p, n) == format(splitext(p).fname, n, splitext(p).file_ext)

C12_Returned ==
    /\ cfPc \in {"while", "return", "returned"} => files = files0
    /\ cfPc = "returned" =>
          /\ returned \notin files0
          /\ fpath \notin files0 => returned = fpath
          /\ fpath \in files0 =>
                \E n \in 1..(Cardinality(files0) + 1) :
                   /\ returned = Numbered(fpath, n)
                   /\ \A j \in 1..(n - 1) : Numbered(fpath, j) \in files0

\* C12: for every requested path and every finite set of existing paths the
\* call terminates and returns a path that does not exist: the requested
\* path when it is free, otherwise <name>_<i><ext> for the least i >= 1
\* whose path is free; the call creates, deletes and modifies no file.
C12_NeverOverwrites ==
    /\ []C12_Returned
    /\ [](cfPc \in {"while", "return"} => <>(cfPc = "returned"))

C12_Witness ==
    /\ cfPc = "returned"
    /\ fpath = Path(<<"a", ".", "b">>)
    /\ cfI = 2
    /\ returned = Path(<<"a", "_", "2", ".", "b">>)
    /\ Path(<<"a", "_", "1", ".", "b">>) \in files0

=============================================================================
